---------------------------- MODULE Spec2Model ----------------------------
(***************************************************************************)
(* Model of ParsonLabs/caption: the speech-segment merger                  *)
(* (detect_speech_segments, src/main.py) and its caller process_video.     *)
(*                                                                         *)
(* Times.  The detector's chunks are integer milliseconds.  The code       *)
(* stores padded ranges as Python floats n/1000; the model stores the      *)
(* integer n and lets it denote the double nearest to n/1000.  On the      *)
(* modelled domain that conversion is injective and monotone, so <=, > and *)
(* max on the stored values agree with the integers.  The one place where  *)
(* the arithmetic is not exact is (start - current_end) * 1000 on line 87: *)
(* its IEEE-754 result differs from the integer difference by a tiny       *)
(* amount of either sign, which FloatGapTimes2 reproduces.                 *)
(***************************************************************************)
EXTENDS Integers, Sequences, FiniteSets, TLC

\* ------------------------------------------------------------------ bounds
MaxT == 11
MaxRanges == 3
MaxMsl == 3
MaxCtx == 1
MaxPause == 2
ConcMaxT == 3
ConcMaxRanges == 2
ConcMaxParam == 1
VideoMaxT == 6
VideoMaxRanges == 3
VideoMaxParam == 1
VideoMaxDur == 8
MaxRuns == 2
MaxCancelClicks == 2
DegMaxT == 3
DegMaxRanges == 2
DegMaxParam == 1

Threads == {1, 2}

VARIABLES
    active,     \* the threads that run detect_speech_segments
    call,       \* call[t]: the arguments of thread t's invocation
    frame       \* frame[t]: the local variables of thread t's invocation

mvars == <<active, call, frame>>

VARIABLES
    vpc,                \* position of process_video
    vcall,              \* arguments of process_video and what the detector finds
    video_duration,     \* video.duration (ms grid)
    temp_dir,           \* "none" | "created" | "removed"
    v_ranges,           \* process_video's non_silent_ranges
    bounded_ranges,     \* process_video's bounded_ranges
    video_clips,        \* the ranges handed to video.subclip
    trace               \* the steps process_video has executed, in order

vvars == <<vpc, vcall, video_duration, temp_dir, v_ranges, bounded_ranges,
           video_clips, trace>>

VARIABLES
    processing,     \* self.processing
    process_btn,    \* state of the Process button: "normal" | "disabled"
    cancel_btn,     \* state of the Cancel button
    gproc,          \* self.process: 0 while the attribute is not set, else
                    \* the run whose child it refers to
    gpc,            \* position of the GUI thread inside a button handler
    run,            \* number of runs started so far
    worker,         \* worker[r]: position of run r's thread in run_processing
    child,          \* child[r]: "none" | "running" | "exited"
    signalled,      \* runs on whose child terminate() was called
    canceled,       \* runs during which Cancel was pressed with processing set
    cancel_clicks   \* number of times the Cancel handler was entered

gvars == <<processing, process_btn, cancel_btn, gproc, gpc, run, worker, child,
           signalled, canceled, cancel_clicks>>

vars == <<active, call, frame, vpc, vcall, video_duration, temp_dir,
          v_ranges, bounded_ranges, video_clips, trace,
          processing, process_btn, cancel_btn, gproc, gpc, run, worker, child,
          signalled, canceled, cancel_clicks>>

\* ----------------------------------------------------------------- helpers
Max(a, b) == IF a >= b THEN a ELSE b

Min(a, b) == IF a <= b THEN a ELSE b

\* One more range appended to each sequence of S: start < end, and start not
\* before the end of the previous range (detect_nonsilent's output shape).
Extend(S, T) ==
    { Append(q, <<a, b>>) : q \in S, a \in 0..T, b \in 0..T }

WellFormed(q) ==
    /\ \A k \in 1..Len(q) : q[k][1] < q[k][2]
    /\ \A k \in 1..(Len(q) - 1) : q[k][2] <= q[k + 1][1]

RECURSIVE RawSeqs(_, _)
RawSeqs(T, n) ==
    IF n = 0 THEN { <<>> }
    ELSE LET S == RawSeqs(T, n - 1)
         IN  S \cup { q \in Extend(S, T) : WellFormed(q) }

\* ------------------------------------------------- detect_speech_segments
\* Pairs (start, current_end), in ms, for which the double
\* (start/1000 - current_end/1000) * 1000 is above the integer
\* start - current_end (IEEE-754 binary64, round to nearest even), for all
\* values 0..16.
GapRoundsUp ==
  { <<1,11>>, <<1,15>>, <<2,9>>, <<3,9>>, <<3,13>>, <<4,9>>, <<4,11>>,
    <<5,9>>, <<5,11>>, <<5,15>>, <<6,9>>, <<6,11>>, <<6,13>>, <<7,9>>,
    <<7,11>>, <<7,13>>, <<8,9>>, <<8,11>>, <<8,13>>, <<8,15>>, <<10,1>>,
    <<10,9>>, <<10,11>>, <<10,13>>, <<10,15>>, <<12,3>>, <<12,9>>, <<12,11>>,
    <<12,13>>, <<12,15>>, <<14,1>>, <<14,5>>, <<14,9>>, <<14,11>>, <<14,13>>,
    <<14,15>>, <<16,3>>, <<16,7>>, <<16,9>>, <<16,11>>, <<16,13>>, <<16,15>> }

\* The pairs for which that double is below the integer difference.
GapRoundsDown ==
  { <<1,10>>, <<1,14>>, <<3,12>>, <<3,16>>, <<5,14>>, <<7,16>>, <<9,2>>,
    <<9,3>>, <<9,4>>, <<9,5>>, <<9,6>>, <<9,7>>, <<9,8>>, <<9,10>>, <<9,12>>,
    <<9,14>>, <<9,16>>, <<11,1>>, <<11,4>>, <<11,5>>, <<11,6>>, <<11,7>>,
    <<11,8>>, <<11,10>>, <<11,12>>, <<11,14>>, <<11,16>>, <<13,3>>, <<13,6>>,
    <<13,7>>, <<13,8>>, <<13,10>>, <<13,12>>, <<13,14>>, <<13,16>>, <<15,1>>,
    <<15,5>>, <<15,8>>, <<15,10>>, <<15,12>>, <<15,14>>, <<15,16>> }

\* Twice the value of (start - current_end) * 1000, with the rounding error
\* (far below half a millisecond) kept as one unit: comparing it with twice
\* an integer gives what the double comparison gives.
FloatGapTimes2(start, current_end) ==
    2 * (start - current_end)
      + (IF <<start, current_end>> \in GapRoundsUp THEN 1
         ELSE IF <<start, current_end>> \in GapRoundsDown THEN -1
         ELSE 0)

\* Lines 74-78, with the end extended the wrong way.
PadRangeShrink(r, context_ms, pause_ms) ==
    << Max(0, r[1] - context_ms), r[2] - pause_ms >>

\* Lines 74-78 without the floor of line 74.
PadRangeNoClamp(r, context_ms, pause_ms) ==
    << r[1] - context_ms, r[2] + pause_ms >>

\* Lines 74-78: context before, pause after, start floored at 0.
PadRange(r, context_ms, pause_ms) ==
    << Max(0, r[1] - context_ms), r[2] + pause_ms >>

\* Lines 84-91 without the test of line 84: the gap test alone decides.
MergeStepNoOverlapTest(acc, r, min_silence_len, context_ms, pause_ms) ==
    LET start == r[1]
        end == r[2]
        current_end == acc.current[2]
    IN  IF FloatGapTimes2(start, current_end)
             > 2 * (min_silence_len - pause_ms - context_ms)
        THEN [ current |-> <<start, end>>,
               merged_ranges |-> Append(acc.merged_ranges, acc.current) ]
        ELSE [ acc EXCEPT !.current = <<acc.current[1], Max(current_end, end)>> ]

\* Lines 84-91 without the test of line 87: every positive gap splits.
MergeStepNoThreshold(acc, r, min_silence_len, context_ms, pause_ms) ==
    LET start == r[1]
        end == r[2]
        current_end == acc.current[2]
    IN  IF start <= current_end
        THEN [ acc EXCEPT !.current = <<acc.current[1], Max(current_end, end)>> ]
        ELSE [ current |-> <<start, end>>,
               merged_ranges |-> Append(acc.merged_ranges, acc.current) ]

\* Lines 84-91 with the branches of line 87 exchanged.
MergeStepSwapped(acc, r, min_silence_len, context_ms, pause_ms) ==
    LET start == r[1]
        end == r[2]
        current_end == acc.current[2]
    IN  IF start <= current_end
        THEN [ acc EXCEPT !.current = <<acc.current[1], Max(current_end, end)>> ]
        ELSE IF FloatGapTimes2(start, current_end)
                  > 2 * (min_silence_len - pause_ms - context_ms)
             THEN [ acc EXCEPT !.current = <<acc.current[1], end>> ]
             ELSE [ current |-> <<start, end>>,
                    merged_ranges |-> Append(acc.merged_ranges, acc.current) ]

\* Lines 84-91 where a split forgets the range it closes.
MergeStepDropClosed(acc, r, min_silence_len, context_ms, pause_ms) ==
    LET start == r[1]
        end == r[2]
        current_end == acc.current[2]
    IN  IF start <= current_end
        THEN [ acc EXCEPT !.current = <<acc.current[1], Max(current_end, end)>> ]
        ELSE IF FloatGapTimes2(start, current_end)
                  > 2 * (min_silence_len - pause_ms - context_ms)
             THEN [ acc EXCEPT !.current = <<start, end>> ]
             ELSE [ acc EXCEPT !.current = <<acc.current[1], end>> ]

\* Lines 84-91 with line 91 left out: a short gap leaves current_end alone.
MergeStepKeepEnd(acc, r, min_silence_len, context_ms, pause_ms) ==
    LET start == r[1]
        end == r[2]
        current_end == acc.current[2]
    IN  IF start <= current_end
        THEN [ acc EXCEPT !.current = <<acc.current[1], Max(current_end, end)>> ]
        ELSE IF FloatGapTimes2(start, current_end)
                  > 2 * (min_silence_len - pause_ms - context_ms)
             THEN [ current |-> <<start, end>>,
                    merged_ranges |-> Append(acc.merged_ranges, acc.current) ]
             ELSE acc

\* Lines 84-91: one iteration of the merge loop on the padded range r, with
\* acc = (current_start, current_end) and the ranges emitted so far.
MergeStep(acc, r, min_silence_len, context_ms, pause_ms) ==
    LET start == r[1]
        end == r[2]
        current_end == acc.current[2]
    IN  IF start <= current_end
        THEN [ acc EXCEPT !.current = <<acc.current[1], Max(current_end, end)>> ]
        ELSE IF FloatGapTimes2(start, current_end)
                  > 2 * (min_silence_len - pause_ms - context_ms)
             THEN [ current |-> <<start, end>>,
                    merged_ranges |-> Append(acc.merged_ranges, acc.current) ]
             ELSE [ acc EXCEPT !.current = <<acc.current[1], end>> ]

\* Line 92 left out.
FinalEmitMissing(merged_ranges, current) == merged_ranges

\* Line 92: the last accumulator is emitted unconditionally.
FinalEmit(merged_ranges, current) == Append(merged_ranges, current)

\* Lines 72-78 as a whole.
Padded(chunks, context_ms, pause_ms) ==
    [ k \in 1..Len(chunks) |-> PadRange(chunks[k], context_ms, pause_ms) ]

RECURSIVE MergeFrom(_, _, _, _, _, _)
MergeFrom(acc, ranges, k, min_silence_len, context_ms, pause_ms) ==
    IF k > Len(ranges) THEN acc
    ELSE MergeFrom(MergeStep(acc, ranges[k], min_silence_len, context_ms, pause_ms),
                   ranges, k + 1, min_silence_len, context_ms, pause_ms)

\* Lines 72-95: the value detect_speech_segments returns for the chunks the
\* detector found.
DetectSpeechSegments(chunks, min_silence_len, context_ms, pause_ms) ==
    LET non_silent_ranges == Padded(chunks, context_ms, pause_ms)
    IN  IF non_silent_ranges = <<>> THEN <<>>
        ELSE LET acc == MergeFrom([ current |-> non_silent_ranges[1],
                                    merged_ranges |-> <<>> ],
                                  non_silent_ranges, 2,
                                  min_silence_len, context_ms, pause_ms)
             IN  FinalEmit(acc.merged_ranges, acc.current)

\* Each invocation reads one frame of locals whoever runs beside it: thread 1's.
LocalsShared(fr, t) == fr[1]

\* Lines 72-92: the locals are those of the invocation itself.
Locals(fr, t) == fr[t]

IdleFrame ==
    [ pc |-> "idle", i |-> 1, non_silent_ranges |-> <<>>,
      merged_ranges |-> <<>>, current |-> <<0, 0>> ]

EntryFrame == [ IdleFrame EXCEPT !.pc = "pad" ]

IdleCall ==
    [ chunks |-> <<>>, min_silence_len |-> 0, context_ms |-> 0, pause_ms |-> 0 ]

Calls(T, n, maxMsl, maxCtx, maxPause) ==
    [ chunks : RawSeqs(T, n), min_silence_len : 0..maxMsl,
      context_ms : 0..maxCtx, pause_ms : 0..maxPause ]

\* Lines 73-78: one iteration of the padding loop.
PadIter(t) ==
    LET L == Locals(frame, t) IN
    /\ t \in active
    /\ L.pc = "pad"
    /\ L.i <= Len(call[t].chunks)
    /\ frame' = [ frame EXCEPT ![t] =
                    [ L EXCEPT !.non_silent_ranges =
                                  Append(@, PadRange(call[t].chunks[L.i],
                                                     call[t].context_ms,
                                                     call[t].pause_ms)),
                               !.i = @ + 1 ] ]
    /\ UNCHANGED <<active, call>>
    /\ UNCHANGED vvars
    /\ UNCHANGED gvars

\* Lines 80-82: nothing to merge (and the return of line 95), or the
\* accumulator seeded from the first padded range.
BeginMerge(t) ==
    LET L == Locals(frame, t) IN
    /\ t \in active
    /\ L.pc = "pad"
    /\ L.i > Len(call[t].chunks)
    /\ frame' = [ frame EXCEPT ![t] =
                    IF L.non_silent_ranges = <<>>
                    THEN [ L EXCEPT !.pc = "done" ]
                    ELSE [ L EXCEPT !.pc = "merge", !.i = 2,
                                    !.current = L.non_silent_ranges[1] ] ]
    /\ UNCHANGED <<active, call>>
    /\ UNCHANGED vvars
    /\ UNCHANGED gvars

\* Lines 83-91: one iteration of the merge loop.
MergeIter(t) ==
    LET L == Locals(frame, t)
        acc == MergeStep([ current |-> L.current,
                           merged_ranges |-> L.merged_ranges ],
                         L.non_silent_ranges[L.i],
                         call[t].min_silence_len, call[t].context_ms,
                         call[t].pause_ms)
    IN
    /\ t \in active
    /\ L.pc = "merge"
    /\ L.i <= Len(L.non_silent_ranges)
    /\ frame' = [ frame EXCEPT ![t] =
                    [ L EXCEPT !.current = acc.current,
                               !.merged_ranges = acc.merged_ranges,
                               !.i = @ + 1 ] ]
    /\ UNCHANGED <<active, call>>
    /\ UNCHANGED vvars
    /\ UNCHANGED gvars

\* Lines 92-95: the final accumulator is emitted and the list returned.
EmitLast(t) ==
    LET L == Locals(frame, t) IN
    /\ t \in active
    /\ L.pc = "merge"
    /\ L.i > Len(L.non_silent_ranges)
    /\ frame' = [ frame EXCEPT ![t] =
                    [ L EXCEPT !.merged_ranges = FinalEmit(@, L.current),
                               !.pc = "done" ] ]
    /\ UNCHANGED <<active, call>>
    /\ UNCHANGED vvars
    /\ UNCHANGED gvars

Runs == 1..MaxRuns

\* Lines 22-32 and 124: the window after __init__, nothing running.
GuiIdle ==
    /\ processing = FALSE
    /\ process_btn = "normal"
    /\ cancel_btn = "disabled"
    /\ gproc = 0
    /\ gpc = "idle"
    /\ run = 0
    /\ worker = [ r \in Runs |-> "none" ]
    /\ child = [ r \in Runs |-> "none" ]
    /\ signalled = {}
    /\ canceled = {}
    /\ cancel_clicks = 0

VideoIdle ==
    /\ vpc = "idle"
    /\ vcall = IdleCall
    /\ video_duration = 0
    /\ temp_dir = "none"
    /\ v_ranges = <<>>
    /\ bounded_ranges = <<>>
    /\ video_clips = <<>>
    /\ trace = <<>>

\* ---------------------------------------------------------- process_video
\* Lines 220-222 without the clamp.
ClampEndMissing(r, duration) == r

\* Lines 220-222: an end beyond the video duration becomes the duration.
ClampEnd(r, duration) ==
    IF r[2] > duration THEN <<r[1], duration>> ELSE r

\* Line 224: the range starts inside the video and is not empty.
KeepRange(r, duration) == r[1] < duration /\ r[2] > r[1]

RECURSIVE BoundFrom(_, _, _, _)
BoundFrom(bounded, ranges, k, duration) ==
    IF k > Len(ranges) THEN bounded
    ELSE LET r == ClampEnd(ranges[k], duration)
         IN  BoundFrom(IF KeepRange(r, duration) THEN Append(bounded, r)
                       ELSE bounded,
                       ranges, k + 1, duration)

\* Lines 218-225: the loop that builds bounded_ranges.
BoundRanges(ranges, duration) == BoundFrom(<<>>, ranges, 1, duration)

\* Line 232 never true: the early return is missing.
NoClipsNever(clips) == FALSE

\* Line 232: `if not video_clips`.
NoClips(clips) == clips = <<>>

\* The step at vpc is attempted; an exception it raises is caught on line 363.
VStep(name, ok, next) ==
    /\ vpc = name
    /\ trace' = Append(trace, name)
    /\ vpc' = IF ok THEN next ELSE "except"

\* Lines 191-203: output path, output directory, VideoFileClip, duration.
VLoad ==
    /\ \E ok \in BOOLEAN : VStep("load", ok, "mkdtemp")
    /\ UNCHANGED <<vcall, video_duration, temp_dir, v_ranges, bounded_ranges,
                   video_clips>>
    /\ UNCHANGED mvars
    /\ UNCHANGED gvars

\* Line 205: tempfile.mkdtemp().
VMkdtemp ==
    /\ \E ok \in BOOLEAN :
          /\ VStep("mkdtemp", ok, "extract")
          /\ temp_dir' = IF ok THEN "created" ELSE temp_dir
    /\ UNCHANGED <<vcall, video_duration, v_ranges, bounded_ranges, video_clips>>
    /\ UNCHANGED mvars
    /\ UNCHANGED gvars

\* Lines 206-207: the audio track is written into the temporary directory.
VExtractAudio ==
    /\ \E ok \in BOOLEAN : VStep("extract", ok, "detect")
    /\ UNCHANGED <<vcall, video_duration, temp_dir, v_ranges, bounded_ranges,
                   video_clips>>
    /\ UNCHANGED mvars
    /\ UNCHANGED gvars

\* Lines 209-216: the call of detect_speech_segments.
VDetect ==
    /\ \E ok \in BOOLEAN :
          /\ VStep("detect", ok, "bound")
          /\ v_ranges' = IF ok
                         THEN DetectSpeechSegments(vcall.chunks,
                                                   vcall.min_silence_len,
                                                   vcall.context_ms,
                                                   vcall.pause_ms)
                         ELSE v_ranges
    /\ UNCHANGED <<vcall, video_duration, temp_dir, bounded_ranges, video_clips>>
    /\ UNCHANGED mvars
    /\ UNCHANGED gvars

\* Lines 218-228: clamp against the duration, drop what lies outside.
VBound ==
    /\ VStep("bound", TRUE, "subclip")
    /\ bounded_ranges' = BoundRanges(v_ranges, video_duration)
    /\ UNCHANGED <<vcall, video_duration, temp_dir, v_ranges, video_clips>>
    /\ UNCHANGED mvars
    /\ UNCHANGED gvars

\* Lines 230-234: one subclip per bounded range; return when there is none.
VSubclip ==
    /\ \E ok \in BOOLEAN :
          /\ vpc = "subclip"
          /\ trace' = Append(trace, "subclip")
          /\ video_clips' = IF ok THEN bounded_ranges ELSE video_clips
          /\ vpc' = IF ~ok THEN "except"
                    ELSE IF NoClips(bounded_ranges) THEN "finally"
                    ELSE "concat"
    /\ UNCHANGED <<vcall, video_duration, temp_dir, v_ranges, bounded_ranges>>
    /\ UNCHANGED mvars
    /\ UNCHANGED gvars

\* Lines 236-255: concatenate_videoclips and the concatenated audio.
VConcat ==
    /\ \E ok \in BOOLEAN : VStep("concat", ok, "transcribe")
    /\ UNCHANGED <<vcall, video_duration, temp_dir, v_ranges, bounded_ranges,
                   video_clips>>
    /\ UNCHANGED mvars
    /\ UNCHANGED gvars

\* Lines 257-280: transcription and subtitles; the handler of line 277
\* swallows every exception.
VTranscribe ==
    /\ VStep("transcribe", TRUE, "write")
    /\ UNCHANGED <<vcall, video_duration, temp_dir, v_ranges, bounded_ranges,
                   video_clips>>
    /\ UNCHANGED mvars
    /\ UNCHANGED gvars

\* Lines 282-345: the final video is written; a failure leads to the
\* attempt without subtitles.
VWrite ==
    /\ \E ok \in BOOLEAN :
          /\ vpc = "write"
          /\ trace' = Append(trace, "write")
          /\ vpc' = IF ok THEN "finally" ELSE "fallback"
    /\ UNCHANGED <<vcall, video_duration, temp_dir, v_ranges, bounded_ranges,
                   video_clips>>
    /\ UNCHANGED mvars
    /\ UNCHANGED gvars

\* Lines 347-361: the video is written without subtitles; on failure
\* process_video returns.
VFallbackWrite ==
    /\ \E ok \in BOOLEAN :
          /\ vpc = "fallback"
          /\ trace' = Append(trace, IF ok THEN "fallback" ELSE "fallback_failed")
          /\ vpc' = "finally"
    /\ UNCHANGED <<vcall, video_duration, temp_dir, v_ranges, bounded_ranges,
                   video_clips>>
    /\ UNCHANGED mvars
    /\ UNCHANGED gvars

\* Lines 363-364: the handler of every exception of the body.
VExcept ==
    /\ vpc = "except"
    /\ trace' = Append(trace, "except")
    /\ vpc' = "finally"
    /\ UNCHANGED <<vcall, video_duration, temp_dir, v_ranges, bounded_ranges,
                   video_clips>>
    /\ UNCHANGED mvars
    /\ UNCHANGED gvars

\* Line 367 never true: the directory is left behind.
ShouldRemoveNever(td) == FALSE

\* Line 367: `if temp_dir and os.path.exists(temp_dir)`.
ShouldRemove(td) == td = "created"

\* Lines 366-374: the temporary directory, if there is one, is removed; a
\* failure of the removal is printed and swallowed.
VFinally ==
    /\ vpc = "finally"
    /\ \E ok \in BOOLEAN :
          IF ShouldRemove(temp_dir)
          THEN /\ trace' = Append(trace, "rmtree")
               /\ temp_dir' = IF ok THEN "removed" ELSE "created"
          ELSE /\ trace' = Append(trace, "finally")
               /\ temp_dir' = temp_dir
    /\ vpc' = "done"
    /\ UNCHANGED <<vcall, video_duration, v_ranges, bounded_ranges, video_clips>>
    /\ UNCHANGED mvars
    /\ UNCHANGED gvars

\* One run of process_video on a video of any duration whose audio holds any
\* well-formed sequence of chunks.
InitVideo ==
    /\ active = {}
    /\ call = [ t \in Threads |-> IdleCall ]
    /\ frame = [ t \in Threads |-> IdleFrame ]
    /\ vpc = "load"
    /\ vcall \in Calls(VideoMaxT, VideoMaxRanges, VideoMaxParam, VideoMaxParam,
                       VideoMaxParam)
    /\ video_duration \in 1..VideoMaxDur
    /\ temp_dir = "none"
    /\ v_ranges = <<>>
    /\ bounded_ranges = <<>>
    /\ video_clips = <<>>
    /\ trace = <<>>
    /\ GuiIdle

NextVideo ==
    \/ VLoad
    \/ VMkdtemp
    \/ VExtractAudio
    \/ VDetect
    \/ VBound
    \/ VSubclip
    \/ VConcat
    \/ VTranscribe
    \/ VWrite
    \/ VFallbackWrite
    \/ VExcept
    \/ VFinally

SpecVideo == InitVideo /\ [][NextVideo]_vars

\* One invocation of detect_speech_segments on any well-formed input.
Init ==
    /\ active = {1}
    /\ \E c \in Calls(MaxT, MaxRanges, MaxMsl, MaxCtx, MaxPause) :
           call = [ t \in Threads |-> IF t = 1 THEN c ELSE IdleCall ]
    /\ frame = [ t \in Threads |-> IF t = 1 THEN EntryFrame ELSE IdleFrame ]
    /\ VideoIdle
    /\ GuiIdle

\* Two invocations on independent inputs, run by two threads.
InitConc ==
    /\ active = Threads
    /\ call \in [ Threads -> Calls(ConcMaxT, ConcMaxRanges, ConcMaxParam,
                                   ConcMaxParam, ConcMaxParam) ]
    /\ frame = [ t \in Threads |-> EntryFrame ]
    /\ VideoIdle
    /\ GuiIdle

\* Sequences of chunks in ascending order in which a chunk may have no
\* duration (start = end): detect_speech_segments takes whatever
\* detect_nonsilent returns, and lines 72-78 check nothing.
RECURSIVE DegenerateSeqs(_, _)
DegenerateSeqs(T, n) ==
    IF n = 0 THEN { <<>> }
    ELSE LET S == DegenerateSeqs(T, n - 1)
         IN  S \cup { q \in Extend(S, T) :
                        /\ \A k \in 1..Len(q) : q[k][1] <= q[k][2]
                        /\ \A k \in 1..(Len(q) - 1) : q[k][2] <= q[k + 1][1] }

\* One invocation of detect_speech_segments on chunks that may be degenerate.
InitDegenerate ==
    /\ active = {1}
    /\ \E c \in [ chunks : DegenerateSeqs(DegMaxT, DegMaxRanges),
                  min_silence_len : 0..DegMaxParam,
                  context_ms : 0..DegMaxParam,
                  pause_ms : 0..DegMaxParam ] :
           call = [ t \in Threads |-> IF t = 1 THEN c ELSE IdleCall ]
    /\ frame = [ t \in Threads |-> IF t = 1 THEN EntryFrame ELSE IdleFrame ]
    /\ VideoIdle
    /\ GuiIdle

Next ==
    \E t \in Threads :
        \/ PadIter(t)
        \/ BeginMerge(t)
        \/ MergeIter(t)
        \/ EmitLast(t)

Spec == Init /\ [][Next]_vars

SpecConc == InitConc /\ [][Next]_vars

SpecDegenerate == InitDegenerate /\ [][Next]_vars

\* ------------------------------------------------------------ CaptionGUI
\* The positions of run_processing before its finally block (lines 213-263).
BodyStates == {"start", "reading", "wait", "report", "except"}

\* Line 198 leaving the button as it is.
StateOnStartNormal == "normal"

\* Line 198: process_btn.config(state=tk.DISABLED).
StateOnStart == "disabled"

\* process_video, lines 185-198: the Process button is pressed with valid
\* paths; the button is disabled.
G_Process198 ==
    /\ gpc = "idle"
    /\ process_btn = "normal"
    /\ run < MaxRuns
    /\ process_btn' = StateOnStart
    /\ gpc' = "p199"
    /\ UNCHANGED <<processing, cancel_btn, gproc, run, worker, child,
                   signalled, canceled, cancel_clicks>>
    /\ UNCHANGED <<mvars, vvars>>

\* process_video, line 199: the Cancel button is enabled.
G_Process199 ==
    /\ gpc = "p199"
    /\ cancel_btn' = "normal"
    /\ gpc' = "p200"
    /\ UNCHANGED <<processing, process_btn, gproc, run, worker, child,
                   signalled, canceled, cancel_clicks>>
    /\ UNCHANGED <<mvars, vvars>>

\* process_video, line 200: self.processing = True.
G_Process200 ==
    /\ gpc = "p200"
    /\ processing' = TRUE
    /\ gpc' = "p208"
    /\ UNCHANGED <<process_btn, cancel_btn, gproc, run, worker, child,
                   signalled, canceled, cancel_clicks>>
    /\ UNCHANGED <<mvars, vvars>>

\* process_video, lines 202-210: the worker thread of the run is started.
G_Process208 ==
    /\ gpc = "p208"
    /\ run' = run + 1
    /\ worker' = [ worker EXCEPT ![run + 1] = "start" ]
    /\ gpc' = "idle"
    /\ UNCHANGED <<processing, process_btn, cancel_btn, gproc, child,
                   signalled, canceled, cancel_clicks>>
    /\ UNCHANGED <<mvars, vvars>>

\* cancel_processing, lines 271-275: the Cancel button is pressed; nothing
\* happens unless self.processing is set, which is then cleared.
G_Cancel272 ==
    /\ gpc = "idle"
    /\ cancel_btn = "normal"
    /\ cancel_clicks < MaxCancelClicks
    /\ cancel_clicks' = cancel_clicks + 1
    /\ IF ~processing
       THEN UNCHANGED <<processing, gpc, canceled>>
       ELSE /\ processing' = FALSE
            /\ canceled' = canceled \cup {run}
            /\ gpc' = "c278"
    /\ UNCHANGED <<process_btn, cancel_btn, gproc, run, worker, child, signalled>>
    /\ UNCHANGED <<mvars, vvars>>

\* cancel_processing, lines 276-286: terminate (then kill) whatever child
\* self.process refers to, if the attribute is set.
G_Cancel278 ==
    /\ gpc = "c278"
    /\ IF gproc # 0
       THEN /\ signalled' = signalled \cup {gproc}
            /\ child' = [ child EXCEPT ![gproc] =
                            IF @ = "running" THEN "exited" ELSE @ ]
       ELSE UNCHANGED <<signalled, child>>
    /\ gpc' = "idle"
    /\ UNCHANGED <<processing, process_btn, cancel_btn, gproc, run, worker,
                   canceled, cancel_clicks>>
    /\ UNCHANGED <<mvars, vvars>>

\* run_processing, lines 213-241: the command is built and the child started
\* and stored in self.process; Popen may raise.
W_Popen(r) ==
    /\ worker[r] = "start"
    /\ \E ok \in BOOLEAN :
          IF ok
          THEN /\ child' = [ child EXCEPT ![r] = "running" ]
               /\ gproc' = r
               /\ worker' = [ worker EXCEPT ![r] = "reading" ]
          ELSE /\ worker' = [ worker EXCEPT ![r] = "except" ]
               /\ UNCHANGED <<child, gproc>>
    /\ UNCHANGED <<processing, process_btn, cancel_btn, gpc, run, signalled,
                   canceled, cancel_clicks>>
    /\ UNCHANGED <<mvars, vvars>>

\* run_processing, lines 243-245: a line is read while self.processing is
\* cleared; the loop is left.
W_ReadBreak(r) ==
    /\ worker[r] = "reading"
    /\ ~processing
    /\ worker' = [ worker EXCEPT ![r] = "wait" ]
    /\ UNCHANGED <<processing, process_btn, cancel_btn, gproc, gpc, run, child,
                   signalled, canceled, cancel_clicks>>
    /\ UNCHANGED <<mvars, vvars>>

\* run_processing, line 243: readline returns "" once the child is gone.
W_ReadEOF(r) ==
    /\ worker[r] = "reading"
    /\ child[gproc] = "exited"
    /\ worker' = [ worker EXCEPT ![r] = "wait" ]
    /\ UNCHANGED <<processing, process_btn, cancel_btn, gproc, gpc, run, child,
                   signalled, canceled, cancel_clicks>>
    /\ UNCHANGED <<mvars, vvars>>

\* run_processing, line 248: self.process.wait() returns when the child has
\* exited.
W_Wait(r) ==
    /\ worker[r] = "wait"
    /\ child[gproc] = "exited"
    /\ worker' = [ worker EXCEPT ![r] = "report" ]
    /\ UNCHANGED <<processing, process_btn, cancel_btn, gproc, gpc, run, child,
                   signalled, canceled, cancel_clicks>>
    /\ UNCHANGED <<mvars, vvars>>

\* run_processing, lines 250-259: the outcome is logged and shown; the
\* calls into Tk may raise.
W_Report(r) ==
    /\ worker[r] = "report"
    /\ \E ok \in BOOLEAN :
          worker' = [ worker EXCEPT ![r] = IF ok THEN "fin266" ELSE "except" ]
    /\ UNCHANGED <<processing, process_btn, cancel_btn, gproc, gpc, run, child,
                   signalled, canceled, cancel_clicks>>
    /\ UNCHANGED <<mvars, vvars>>

\* run_processing, lines 261-263: the handler; the finally block follows.
W_Except(r) ==
    /\ worker[r] = "except"
    /\ worker' = [ worker EXCEPT ![r] = "fin266" ]
    /\ UNCHANGED <<processing, process_btn, cancel_btn, gproc, gpc, run, child,
                   signalled, canceled, cancel_clicks>>
    /\ UNCHANGED <<mvars, vvars>>

\* run_processing, line 266: the Process button is enabled again.
W_Fin266(r) ==
    /\ worker[r] = "fin266"
    /\ process_btn' = "normal"
    /\ worker' = [ worker EXCEPT ![r] = "fin267" ]
    /\ UNCHANGED <<processing, cancel_btn, gproc, gpc, run, child, signalled,
                   canceled, cancel_clicks>>
    /\ UNCHANGED <<mvars, vvars>>

\* run_processing, line 267: the Cancel button is disabled.
W_Fin267(r) ==
    /\ worker[r] = "fin267"
    /\ cancel_btn' = "disabled"
    /\ worker' = [ worker EXCEPT ![r] = "fin269" ]
    /\ UNCHANGED <<processing, process_btn, gproc, gpc, run, child, signalled,
                   canceled, cancel_clicks>>
    /\ UNCHANGED <<mvars, vvars>>

\* run_processing, lines 268-269: self.processing = False; the thread ends.
W_Fin269(r) ==
    /\ worker[r] = "fin269"
    /\ processing' = FALSE
    /\ worker' = [ worker EXCEPT ![r] = "ended" ]
    /\ UNCHANGED <<process_btn, cancel_btn, gproc, gpc, run, child, signalled,
                   canceled, cancel_clicks>>
    /\ UNCHANGED <<mvars, vvars>>

\* The child (main.py) comes to its end by itself.
ChildExit(r) ==
    /\ child[r] = "running"
    /\ child' = [ child EXCEPT ![r] = "exited" ]
    /\ UNCHANGED <<processing, process_btn, cancel_btn, gproc, gpc, run, worker,
                   signalled, canceled, cancel_clicks>>
    /\ UNCHANGED <<mvars, vvars>>

\* A button handler, once entered, runs on.
GuiContinue ==
    \/ G_Process199
    \/ G_Process200
    \/ G_Process208
    \/ G_Cancel278

\* The steps of run r's worker thread.
WorkerStep(r) ==
    \/ W_Popen(r)
    \/ W_ReadBreak(r)
    \/ W_ReadEOF(r)
    \/ W_Wait(r)
    \/ W_Report(r)
    \/ W_Except(r)
    \/ W_Fin266(r)
    \/ W_Fin267(r)
    \/ W_Fin269(r)

\* The window after __init__; the user may press Process and Cancel.
InitGui ==
    /\ active = {}
    /\ call = [ t \in Threads |-> IdleCall ]
    /\ frame = [ t \in Threads |-> IdleFrame ]
    /\ VideoIdle
    /\ GuiIdle

NextGui ==
    \/ G_Process198
    \/ G_Cancel272
    \/ GuiContinue
    \/ \E r \in Runs : WorkerStep(r)
    \/ \E r \in Runs : ChildExit(r)

\* Threads that can run do run, handlers return and children end; the user
\* is not obliged to press anything.
GuiFairness ==
    /\ WF_vars(GuiContinue)
    /\ \A r \in Runs : WF_vars(WorkerStep(r))
    /\ \A r \in Runs : WF_vars(ChildExit(r))

SpecGui == InitGui /\ [][NextGui]_vars /\ GuiFairness

\* ------------------------------------------------------------- properties
\* The single invocation of Spec: its arguments, its result, its end.
In1 == call[1]

Out1 == frame[1].merged_ranges

Done1 == 1 \in active /\ frame[1].pc = "done"

Residual(c) == c.min_silence_len - c.pause_ms - c.context_ms

InTrace(name) == \E k \in 1..Len(trace) : trace[k] = name

\* C1 (coverage): when the merge has returned, the padded interval
\* [max(0, start - contextMs), end + pauseMs] of every raw range lies inside
\* the span of one single output range.
C1_Coverage ==
    Done1 =>
      \A k \in 1..Len(In1.chunks) :
        \E j \in 1..Len(Out1) :
          /\ Out1[j][1] <= Max(0, In1.chunks[k][1] - In1.context_ms)
          /\ In1.chunks[k][2] + In1.pause_ms <= Out1[j][2]

\* Three raw ranges came in, two of them were merged and one split off.
C1_Witness ==
    Done1 /\ Len(In1.chunks) = 3 /\ Len(Out1) = 2

\* C2 (non-overlap and ordering): the output is ascending by start and each
\* output range ends no later than the next one starts.
C2_NonOverlapOrdered ==
    Done1 =>
      \A j \in 1..(Len(Out1) - 1) :
        /\ Out1[j][2] <= Out1[j + 1][1]
        /\ Out1[j][1] <= Out1[j + 1][1]

\* Three output ranges were returned.
C2_Witness ==
    Done1 /\ Len(Out1) = 3

\* C3 as stated (minimum separation): adjacent output ranges are at least
\* minSilenceLenMs apart.
C3_MinSeparation ==
    Done1 =>
      \A j \in 1..(Len(Out1) - 1) :
        Out1[j + 1][1] - Out1[j][2] >= In1.min_silence_len

\* C3 as amended: adjacent output ranges are a positive gap apart, and that
\* gap is at least minSilenceLenMs - pauseMs - contextMs.
C3_ResidualSeparation ==
    Done1 =>
      \A j \in 1..(Len(Out1) - 1) :
        /\ Out1[j + 1][1] - Out1[j][2] > 0
        /\ Out1[j + 1][1] - Out1[j][2] >= Residual(In1)

\* Two adjacent outputs lie closer to one another than minSilenceLenMs.
C3_Witness ==
    /\ Done1
    /\ \E j \in 1..(Len(Out1) - 1) :
          Out1[j + 1][1] - Out1[j][2] < In1.min_silence_len

\* C4 as stated (monotone in padding): with the same raw ranges and the same
\* minSilenceLenMs, no larger contextMs or pauseMs gives more output ranges.
C4_MonotonePadding ==
    Done1 =>
      \A c2 \in In1.context_ms..MaxCtx :
        \A p2 \in In1.pause_ms..MaxPause :
          Len(DetectSpeechSegments(In1.chunks, In1.min_silence_len, c2, p2))
            <= Len(Out1)

\* The case of C5: the threshold is zero or negative and the padded range
\* the loop is about to take starts after the accumulator's end.
C5_Case ==
    /\ 1 \in active
    /\ frame[1].pc = "merge"
    /\ frame[1].i <= Len(frame[1].non_silent_ranges)
    /\ Residual(In1) <= 0
    /\ frame[1].non_silent_ranges[frame[1].i][1] > frame[1].current[2]

\* C5 as stated (permissive merging): in that case the iteration merges, it
\* emits no output range.
C5_PermissiveMerge ==
    [][ C5_Case => frame'[1].merged_ranges = frame[1].merged_ranges ]_vars

\* C5 as amended: in that case the iteration always splits: it emits the
\* accumulator and starts a new one at the padded range.
C5_PositiveGapSplits ==
    [][ C5_Case =>
          /\ frame'[1].merged_ranges =
                Append(frame[1].merged_ranges, frame[1].current)
          /\ frame'[1].current = frame[1].non_silent_ranges[frame[1].i] ]_vars

\* Under a zero or negative threshold the second padded range, which started
\* after the end of the first, has just been split off.
C5_Witness ==
    /\ 1 \in active
    /\ Residual(In1) <= 0
    /\ frame[1].pc = "merge"
    /\ frame[1].i = 3
    /\ Len(frame[1].merged_ranges) = 1
    /\ frame[1].current = frame[1].non_silent_ranges[2]
    /\ frame[1].current[1] > frame[1].merged_ranges[1][2]

\* C6 (non-degenerate outputs): every output range ends after it starts.
C6_NonDegenerate ==
    Done1 => \A j \in 1..Len(Out1) : Out1[j][2] > Out1[j][1]

\* Three raw ranges were merged into one output range.
C6_Witness ==
    Done1 /\ Len(In1.chunks) = 3 /\ Len(Out1) = 1

\* C7 (empty in, empty out, and only then): the output is empty exactly when
\* the input is; otherwise it ends with the final accumulator and has between
\* one range and as many ranges as the input.
C7_EmptyIffEmpty ==
    Done1 =>
      /\ (Out1 = <<>>) <=> (In1.chunks = <<>>)
      /\ In1.chunks # <<>> =>
            /\ Len(Out1) >= 1
            /\ Len(Out1) <= Len(In1.chunks)
            /\ Out1[Len(Out1)] = frame[1].current

\* A single raw range came in and one output range was returned.
C7_Witness ==
    Done1 /\ Len(In1.chunks) = 1 /\ Len(Out1) = 1

\* C8 (caller-side bounding): once bounded_ranges is built, every range in it
\* (and so every range handed to subclip) has 0 <= start < end <= duration,
\* the ranges are ascending and do not overlap, every merged range that
\* starts inside the video and is not empty is kept with its end clamped,
\* and no range starting at or after the duration is kept.
C8_CallerBounding ==
    InTrace("bound") =>
      /\ \A j \in 1..Len(bounded_ranges) :
            /\ 0 <= bounded_ranges[j][1]
            /\ bounded_ranges[j][1] < bounded_ranges[j][2]
            /\ bounded_ranges[j][2] <= video_duration
      /\ \A j \in 1..(Len(bounded_ranges) - 1) :
            bounded_ranges[j][2] <= bounded_ranges[j + 1][1]
      /\ \A k \in 1..Len(v_ranges) :
            /\ (v_ranges[k][1] < video_duration /\ v_ranges[k][2] > v_ranges[k][1])
                 => \E j \in 1..Len(bounded_ranges) :
                       bounded_ranges[j] =
                          <<v_ranges[k][1], Min(v_ranges[k][2], video_duration)>>
            /\ v_ranges[k][1] >= video_duration
                 => \A j \in 1..Len(bounded_ranges) :
                       bounded_ranges[j][1] # v_ranges[k][1]
      /\ Len(bounded_ranges) <= Len(v_ranges)
      /\ \A j \in 1..Len(video_clips) : video_clips[j] = bounded_ranges[j]

\* Of three merged ranges one was kept whole, one was clamped to the
\* duration and one was dropped, and the kept ones were handed to subclip.
C8_Witness ==
    /\ vpc = "concat"
    /\ Len(v_ranges) = 3
    /\ Len(video_clips) = 2
    /\ v_ranges[2][2] > video_duration
    /\ video_clips[2][2] = video_duration

\* C9 (empty result is terminal): once the subclip step has run on an empty
\* bounded_ranges, process_video is on its way out: concatenation,
\* transcription and writing are never reached, and the merger has been
\* called once.
C9_EmptyIsTerminal ==
    (InTrace("subclip") /\ bounded_ranges = <<>>) =>
      /\ vpc \in {"except", "finally", "done"}
      /\ ~InTrace("concat")
      /\ ~InTrace("transcribe")
      /\ ~InTrace("write")
      /\ ~InTrace("fallback")
      /\ ~InTrace("fallback_failed")
      /\ Cardinality({ k \in 1..Len(trace) : trace[k] = "detect" }) = 1

\* process_video has returned after the merger gave ranges of which none
\* survived the bounding.
C9_Witness ==
    /\ vpc = "done"
    /\ InTrace("subclip")
    /\ v_ranges # <<>>
    /\ bounded_ranges = <<>>
    /\ ~InTrace("except")

\* C10 (determinism and reentrancy): however the steps of the two
\* invocations interleave, each returns what detect_speech_segments returns
\* for its own arguments, and equal arguments give equal results.
C10_Reentrant ==
    /\ \A t \in active :
          frame[t].pc = "done" =>
            frame[t].merged_ranges =
               DetectSpeechSegments(call[t].chunks, call[t].min_silence_len,
                                    call[t].context_ms, call[t].pause_ms)
    /\ \A t \in active : \A u \in active :
          (frame[t].pc = "done" /\ frame[u].pc = "done" /\ call[t] = call[u])
             => frame[t].merged_ranges = frame[u].merged_ranges

\* Both invocations have returned, with different results, one of them two
\* ranges.
C10_Witness ==
    /\ active = Threads
    /\ frame[1].pc = "done"
    /\ frame[2].pc = "done"
    /\ frame[1].merged_ranges # frame[2].merged_ranges
    /\ Len(frame[2].merged_ranges) = 2

\* The merge loop of the single invocation is about to take a padded range.
MergeIterating ==
    /\ 1 \in active
    /\ frame[1].pc = "merge"
    /\ frame[1].i <= Len(frame[1].non_silent_ranges)

\* C11 as stated (split decision): an iteration on the padded range (s, e)
\* closes the accumulator and starts a new one at (s, e) exactly when
\* s > currentEnd and s - currentEnd, in ms, is strictly greater than
\* minSilenceLenMs - pauseMs - contextMs; otherwise currentStart is kept and
\* currentEnd becomes max(currentEnd, e) if s <= currentEnd, else e.  Raw
\* ranges (0,1000), (1200,2000) with 700/300/500 give the one range (0,2500).
C11_SplitDecision ==
    /\ DetectSpeechSegments(<< <<0, 1000>>, <<1200, 2000>> >>, 700, 300, 500)
          = << <<0, 2500>> >>
    /\ [][ MergeIterating =>
             LET s == frame[1].non_silent_ranges[frame[1].i][1]
                 e == frame[1].non_silent_ranges[frame[1].i][2]
                 currentStart == frame[1].current[1]
                 currentEnd == frame[1].current[2]
             IN  IF s > currentEnd /\ s - currentEnd > Residual(In1)
                 THEN /\ frame'[1].merged_ranges =
                            Append(frame[1].merged_ranges, frame[1].current)
                      /\ frame'[1].current = <<s, e>>
                 ELSE /\ frame'[1].merged_ranges = frame[1].merged_ranges
                      /\ frame'[1].current =
                            << currentStart,
                               IF s <= currentEnd THEN Max(currentEnd, e) ELSE e >>
         ]_vars

\* C12 (padding and clamp at zero): every padded range the merge works on is
\* (max(0, start - contextMs), end + pauseMs) of its raw range; no output
\* range starts before 0; a single raw range gives exactly its padded range;
\* (1000,2000) with context 300 and pause 500 gives (700,2500) ms, that is
\* (0.7, 2.5) s, and (100,500) with context 300 starts at 0.
C12_PaddingClamp ==
    /\ \A k \in 1..Len(frame[1].non_silent_ranges) :
          frame[1].non_silent_ranges[k] =
             << Max(0, In1.chunks[k][1] - In1.context_ms),
                In1.chunks[k][2] + In1.pause_ms >>
    /\ Done1 => \A j \in 1..Len(Out1) : Out1[j][1] >= 0
    /\ (Done1 /\ Len(In1.chunks) = 1) =>
          Out1 = << << Max(0, In1.chunks[1][1] - In1.context_ms),
                       In1.chunks[1][2] + In1.pause_ms >> >>
    /\ DetectSpeechSegments(<< <<1000, 2000>> >>, 700, 300, 500)
          = << <<700, 2500>> >>
    /\ DetectSpeechSegments(<< <<100, 500>> >>, 700, 300, 500)[1][1] = 0

\* A single raw range that starts less than contextMs after time zero has
\* been returned, padded at its end and floored at its start.
C12_Witness ==
    /\ Done1
    /\ Len(In1.chunks) = 1
    /\ In1.chunks[1][1] < In1.context_ms
    /\ In1.pause_ms > 0
    /\ Out1[1][1] = 0

\* C13 (no upper clamp inside the merger): whatever the video duration is,
\* the ranges the merger returned for a non-empty input end at the last raw
\* end + pauseMs and start at max(0, first raw start - contextMs).
C13_NoUpperClamp ==
    (InTrace("bound") /\ vcall.chunks # <<>>) =>
      /\ v_ranges # <<>>
      /\ v_ranges[Len(v_ranges)][2] =
            vcall.chunks[Len(vcall.chunks)][2] + vcall.pause_ms
      /\ v_ranges[1][1] = Max(0, vcall.chunks[1][1] - vcall.context_ms)

\* The merger returned two ranges of which the last ends after the end of
\* the video and the first starts at or after it.
C13_Witness ==
    /\ InTrace("bound")
    /\ Len(v_ranges) = 2
    /\ v_ranges[2][2] > video_duration
    /\ v_ranges[1][1] >= video_duration

\* C14 as stated (degenerate raw ranges are guarded): no raw range with
\* end <= start gets as far as the padded ranges the accumulator is fed
\* from, and the merger returns no range with end <= start, also when
\* contextMs = pauseMs = 0.
C14_DegenerateGuarded ==
    /\ \A k \in 1..Len(frame[1].non_silent_ranges) :
          In1.chunks[k][2] > In1.chunks[k][1]
    /\ Done1 => \A j \in 1..Len(Out1) : Out1[j][1] < Out1[j][2]

\* The raw gaps of the closed form: the indices k whose gap to the next raw
\* range is strictly greater than max(minSilenceLenMs, contextMs + pauseMs).
WideGaps(c) ==
    { k \in 1..(Len(c.chunks) - 1) :
        c.chunks[k + 1][1] - c.chunks[k][2]
           > Max(c.min_silence_len, c.context_ms + c.pause_ms) }

\* C15 as stated (closed form of the merge): two consecutive raw ranges end
\* up in different output ranges exactly when their raw gap is strictly
\* greater than max(minSilenceLenMs, contextMs + pauseMs); so the number of
\* output ranges is 1 plus the number of such gaps, and each output range is
\* (max(0, first raw start of its group - contextMs), last raw end of its
\* group + pauseMs).
C15_ClosedForm ==
    (Done1 /\ In1.chunks # <<>>) =>
      /\ Len(Out1) = 1 + Cardinality(WideGaps(In1))
      /\ \A k \in 1..Len(In1.chunks) :
            LET j == 1 + Cardinality({ b \in WideGaps(In1) : b < k })
            IN  /\ (k = 1 \/ (k - 1) \in WideGaps(In1)) =>
                      Out1[j][1] = Max(0, In1.chunks[k][1] - In1.context_ms)
                /\ (k = Len(In1.chunks) \/ k \in WideGaps(In1)) =>
                      Out1[j][2] = In1.chunks[k][2] + In1.pause_ms

\* C16 (temp-directory cleanup): when process_video has returned and the
\* temporary directory had been created, the last thing it did was the
\* attempt to remove it, whichever way it left the body; the attempt may have
\* failed, process_video has returned all the same; without a directory no
\* removal is attempted, and none is attempted before the finally block.
C16_TempDirCleanup ==
    /\ (vpc = "done" /\ temp_dir # "none") =>
          /\ trace[Len(trace)] = "rmtree"
          /\ InTrace("mkdtemp")
    /\ (vpc = "done" /\ temp_dir = "none") => ~InTrace("rmtree")
    /\ vpc # "done" => (temp_dir # "removed" /\ ~InTrace("rmtree"))

\* process_video has returned after neither write of the output succeeded,
\* and the removal of the temporary directory failed too.
C16_Witness ==
    /\ vpc = "done"
    /\ InTrace("fallback_failed")
    /\ temp_dir = "created"
    /\ trace[Len(trace)] = "rmtree"

\* The positions of run_processing inside and after its finally block.
FinallyStates == {"fin266", "fin267", "fin269", "ended"}

\* C17 as stated (cancel terminates the child): whenever Cancel is pressed
\* while a run is in progress (processing set), terminate is eventually
\* called on the child of that run, if the run has or gets one, and the
\* run's worker thread eventually reaches its finally block, in every
\* interleaving of the two threads.
C17_CancelTerminates ==
    \A r \in Runs :
       /\ (r \in canceled /\ child[r] # "none") ~> (r \in signalled)
       /\ (r \in canceled) ~> (worker[r] \in FinallyStates)

\* C18 (single run at a time): at most one worker is between its start and
\* its finally block; the Process button is disabled from the moment a run
\* starts until the finally block of the latest run enables it; every way
\* out of run_processing passes through the finally block, which disables
\* Cancel and clears processing; and a press on Cancel while processing is
\* not set changes nothing.
C18_SingleRun ==
    /\ [](Cardinality({ r \in Runs : worker[r] \in BodyStates }) <= 1)
    /\ []((gpc \in {"p199", "p200", "p208"}
             \/ \E r \in Runs : worker[r] \in BodyStates)
          => process_btn = "disabled")
    /\ [][ (process_btn = "disabled" /\ process_btn' = "normal")
             => (run >= 1 /\ worker[run] = "fin266" /\ worker'[run] = "fin267")
         ]_vars
    /\ [][ \A r \in Runs :
             /\ (worker[r] \in BodyStates /\ worker'[r] # worker[r])
                   => worker'[r] \in BodyStates \cup {"fin266"}
             /\ (worker[r] = "fin267" /\ worker'[r] # "fin267")
                   => (worker'[r] = "fin269" /\ cancel_btn' = "disabled")
             /\ (worker[r] # "ended" /\ worker'[r] = "ended")
                   => (worker[r] = "fin269" /\ processing' = FALSE)
         ]_vars
    /\ [][ (cancel_clicks' # cancel_clicks /\ ~processing)
             => UNCHANGED <<processing, process_btn, cancel_btn, gproc, gpc,
                            run, worker, child, signalled, canceled>>
         ]_vars

\* The second run is under way, with the Process button disabled, while the
\* first run's worker is still inside its finally block.
C18_Witness ==
    /\ run = 2
    /\ worker[1] = "fin269"
    /\ worker[2] \in BodyStates
    /\ process_btn = "disabled"

=============================================================================
